---- MODULE Spec2Model ----
(***************************************************************************)
(* A model of mic-recog/mic_stream.py: the capture callback and its frame  *)
(* queue, the VAD segmenter, the fixed-window segmenter, the emitter and    *)
(* the interim loop, and the websocket sender thread.                       *)
(*                                                                          *)
(* Each part of the pipeline has a specification of its own (SpecQueue,     *)
(* SpecVad, SpecFixed, SpecDelivery, SpecInterim), which leaves the         *)
(* variables of the other parts at their initial values; SpecPipeline runs  *)
(* the callback next to the main loop and the interim thread.               *)
(***************************************************************************)
EXTENDS Integers, Sequences, FiniteSets, TLC

VARIABLES
    \* ---- capture: callback() and the frame queue q (lines 510, 605-614, 790)
    q,              \* the frame queue: frame ids, oldest first
    captured,       \* number of frames the device has delivered (the id of the newest)
    cbpc,           \* position of the audio callback: "idle", "discard", "put"
    max_queue,      \* args.max_queue
    dropped,        \* frames removed by the callback's q.get_nowait()
    consumed,       \* frames removed by the main loop's q.get()
    \* ---- VAD segmenter: process_vad() and flush_segment() (lines 636-685)
    vpc,            \* main loop position: "get" (q.get) or "loop" (process_vad's while)
    vblock,         \* blocksize: samples per captured block
    vad_buffer,     \* number of samples in the scratch buffer
    vframes,        \* VAD frames cut so far (the id of the newest)
    in_speech,      \* the segmenter's Speaking flag
    ring,           \* deque(maxlen=pre_roll_frames) of frame ids
    speech_frames,  \* frame ids of the segment being built
    triggered,      \* VADIterator's hysteresis state
    pre_roll_frames,
    min_samples,
    max_samples,
    startFrame,     \* the frame of the latest StartEvent
    lastSeg,        \* the segment of the latest flush
    lastCause,      \* what ended it: "none", "end" (EndEvent) or "max" (forced cut)
    lastTranscribed, \* whether that flush called transcribe_final
    lastFinal,      \* whether that flush printed a final
    \* ---- fixed-window segmenter: the else branch of the main loop (lines 512-514, 800-811)
    fblock,         \* blocksize: samples per captured block
    chunk_samples,
    overlap_samples,
    bufStart,       \* offset in the captured stream of buffer[0]
    bufLen,         \* buffer.shape[0]
    nblocks,        \* blocks dequeued so far
    nChunks,        \* chunks handed to transcribe_final so far
    lastChunkStart, \* offset in the captured stream of the latest chunk
    lastChunkLen,   \* its length
    prevChunkStart, \* offset of the chunk before it
    chunkFinal,     \* whether the latest chunk printed a final
    \* ---- delivery: _WebSocketSender (lines 371-425)
    wq,             \* self._queue: message ids, oldest first
    wpc,            \* position of _loop
    conn,           \* the websocket of _loop: "none", "open" or "broken" (the peer closed it)
    wstop,          \* self._stop
    inhand,         \* msg: the message _loop has dequeued and not yet sent (0: none)
    accepted,       \* messages send() has queued (the id of the newest)
    received,       \* messages the remote end has received
    pingOn,         \* self._ping_seconds > 0
    \* ---- emitter and interim loop: main loop, emit_final, interim_loop (lines 687-829)
    now,            \* time.time(), in ticks
    mpc,            \* position of the main loop
    ipc,            \* position of interim_loop
    interim_lock,   \* owner of interim_lock: "free", "main" or "interim"
    tlock,          \* owner of transcribe_lock (final_transcribe_lock)
    itlock,         \* owner of the interim model's own lock (used when separate)
    separate,       \* interim_model is not None
    excludes,       \* args.exclude
    stop_event,
    rb,             \* interim_buffer: [chunks |-> the stored frames, size |-> _size]
    nIntBlocks,     \* blocks the main loop has dequeued
    ftext,          \* emit_final's text
    efNow,          \* emit_final's now (line 706): the time of the latest final (0: none yet)
    wakeAt,         \* when the interim loop's sleep ends
    itext,          \* interim_loop's text
    last_interim_text,
    seq,
    interim_seq,
    suppress_interim_until,
    last_final_text,
    last_final_time,
    stdout,         \* number of lines printed to stdout
    sent,           \* records handed to ws_sender.send, in order: [kind, seq]
                    \* (interims with their text)
    \* ---- rolling buffer: _RollingBuffer used by two threads (lines 332-354, 739-740, 795-796)
    rcap,           \* _max_samples
    radded,         \* samples added so far (the id of the newest)
    rlen,           \* length of the frame of the latest add
    rgot,           \* what the latest get() returned
    rmpc,           \* position of the adding and clearing thread: "idle", "add", "clear"
    ripc            \* position of the reading thread: "idle", "get"

capVars == <<q, captured, cbpc, max_queue, dropped, consumed>>

vadVars == <<vpc, vblock, vad_buffer, vframes, in_speech, ring, speech_frames,
             triggered, pre_roll_frames, min_samples, max_samples,
             startFrame, lastSeg, lastCause, lastTranscribed, lastFinal>>

fixVars == <<fblock, chunk_samples, overlap_samples, bufStart, bufLen, nblocks,
             nChunks, lastChunkStart, lastChunkLen, prevChunkStart, chunkFinal>>

wsVars == <<wq, wpc, conn, wstop, inhand, accepted, received, pingOn>>

\* The variables of the emitter and the interim loop: the configuration, the
\* main loop's, the interim loop's, those both write, and the outputs.
intCfg == <<separate, excludes>>

intMain == <<mpc, nIntBlocks, ftext, efNow, seq, stdout>>

intLoop == <<ipc, wakeAt, itext, interim_seq>>

intLocks == <<interim_lock, tlock, itlock>>

intShared == <<rb, last_interim_text, suppress_interim_until, last_final_text,
               last_final_time, sent>>

intVars == <<now, stop_event, intCfg, intMain, intLoop, intLocks, intShared>>

rollVars == <<rcap, radded, rlen, rgot, rmpc, ripc>>

vars == <<capVars, vadVars, fixVars, wsVars, intVars, rollVars>>

\* What the actions of one part leave alone: the variables of the other parts.
notCap == <<vadVars, fixVars, wsVars, intVars, rollVars>>

notVad == <<capVars, fixVars, wsVars, intVars, rollVars>>

notFix == <<capVars, vadVars, wsVars, intVars, rollVars>>

notWs == <<capVars, vadVars, fixVars, intVars, rollVars>>

notInt == <<capVars, vadVars, fixVars, wsVars, rollVars>>

----------------------------------------------------------------------------
(* Helpers *)

Max(a, b) == IF a >= b THEN a ELSE b

Min(a, b) == IF a <= b THEN a ELSE b

Last(s) == s[Len(s)]

Front(s) == SubSeq(s, 1, Len(s) - 1)

Range(s) == {s[i] : i \in 1..Len(s)}

----------------------------------------------------------------------------
(* Capture: the audio callback (producer) and the main loop's q.get()      *)

\* Bounds of the capture model.
MaxFrames == 6
MaxQueueCfg == 3

InitCap ==
    /\ q = <<>>
    /\ captured = 0
    /\ cbpc = "idle"
    /\ dropped = {}
    /\ consumed = {}

\* callback(), line 609: the device delivers frame captured + 1; q.qsize() is read.
CbCheck ==
    /\ cbpc = "idle"
    /\ captured < MaxFrames
    /\ captured' = captured + 1
    /\ cbpc' = IF Len(q) >= max_queue THEN "discard" ELSE "put"
    /\ UNCHANGED <<q, max_queue, dropped, consumed>>
    /\ UNCHANGED notCap

\* A callback that removes the newest queued frame instead of the oldest.
CbDiscardNewest ==
    /\ cbpc = "discard"
    /\ IF q /= <<>>
          THEN /\ dropped' = dropped \cup {Last(q)}
               /\ q' = Front(q)
          ELSE UNCHANGED <<q, dropped>>
    /\ cbpc' = "put"
    /\ UNCHANGED <<captured, max_queue, consumed>>
    /\ UNCHANGED notCap

\* A callback whose overflow branch removes nothing.
CbDiscardNothing ==
    /\ cbpc = "discard"
    /\ cbpc' = "put"
    /\ UNCHANGED <<q, dropped, captured, max_queue, consumed>>
    /\ UNCHANGED notCap

\* callback(), lines 610-613: q.get_nowait() removes the head; queue.Empty is passed.
CbDiscard ==
    /\ cbpc = "discard"
    /\ IF q /= <<>>
          THEN /\ dropped' = dropped \cup {Head(q)}
               /\ q' = Tail(q)
          ELSE UNCHANGED <<q, dropped>>
    /\ cbpc' = "put"
    /\ UNCHANGED <<captured, max_queue, consumed>>
    /\ UNCHANGED notCap

\* A put that waits for transcribe_lock to be free.
CbPutUnderLock ==
    /\ cbpc = "put"
    /\ tlock = "free"
    /\ q' = Append(q, captured)
    /\ cbpc' = "idle"
    /\ UNCHANGED <<captured, max_queue, dropped, consumed>>
    /\ UNCHANGED notCap

\* callback(), line 614: q.put(indata.copy()) on the unbounded queue.Queue.
CbPut ==
    /\ cbpc = "put"
    /\ q' = Append(q, captured)
    /\ cbpc' = "idle"
    /\ UNCHANGED <<captured, max_queue, dropped, consumed>>
    /\ UNCHANGED notCap

\* main loop, line 790: data = q.get() blocks until a frame is queued.
MainGet ==
    /\ q /= <<>>
    /\ consumed' = consumed \cup {Head(q)}
    /\ q' = Tail(q)
    /\ UNCHANGED <<captured, cbpc, max_queue, dropped>>
    /\ UNCHANGED notCap

----------------------------------------------------------------------------
(* VAD segmenter: process_vad() and flush_segment()                         *)

\* window_size_samples at samplerate 16000 (line 636).
WindowSizeSamples == 512

HalfWindow == WindowSizeSamples \div 2

\* Bounds of the VAD model: frames processed, and the configurations drawn
\* (pre_roll_frames, and min_samples, max_samples and blocksize in half windows).
MaxVadFrames == 6
MaxPreRoll == 2
MaxMinHalves == 5
MaxMaxHalves == 4
MaxBlockHalves == 3

\* A ring without a maximum length.
RingAppendUnbounded(r, f, n) == Append(r, f)

\* deque(maxlen=n).append (line 666): nothing is kept when n = 0, the oldest
\* entry leaves when the deque is full.
RingAppend(r, f, n) ==
    IF n = 0 THEN <<>>
    ELSE IF Len(r) >= n THEN Append(Tail(r), f)
    ELSE Append(r, f)

\* A segment test that never discards.
TooShortNever(seg) == FALSE

\* flush_segment(), line 652: min_samples and segment.shape[0] < min_samples.
TooShort(seg) ==
    min_samples /= 0 /\ Len(seg) * WindowSizeSamples < min_samples

\* A segmenter without the forced cut.
ForceCutNever(inSp, sf) == FALSE

\* A length test that compares the frame count with max_samples.
ForceCutFrames(inSp, sf) ==
    inSp /\ max_samples /= 0 /\ Len(sf) >= max_samples

\* process_vad(), line 681: the forced max-length cut.
ForceCut(inSp, sf) ==
    inSp /\ max_samples /= 0 /\ Len(sf) * WindowSizeSamples >= max_samples

\* VADIterator.__call__ (called at line 668): a StartEvent only when not
\* triggered, an EndEvent only when triggered; the speech probability of the
\* frame and the silence duration decide which, and are inputs here.
VadEvents(trig) == IF trig THEN {"none", "end"} ELSE {"none", "start"}

\* A forced cut that leaves the VAD's state as it is.
ResetStatesKeeps(trig) == trig

\* process_vad(), line 684: vad_iterator.reset_states() leaves the VAD not triggered.
ResetStates(trig) == FALSE

\* main loop, lines 790 and 799, 660: a block is dequeued and appended to vad_buffer.
VadGetBlock ==
    /\ vpc = "get"
    /\ vframes < MaxVadFrames
    /\ vad_buffer' = vad_buffer + vblock
    /\ vpc' = "loop"
    /\ UNCHANGED <<vblock, vframes, in_speech, ring, speech_frames, triggered,
                   pre_roll_frames, min_samples, max_samples,
                   startFrame, lastSeg, lastCause, lastTranscribed, lastFinal>>
    /\ UNCHANGED notVad

\* process_vad(), line 661: the while loop ends when less than a window is left.
VadLoopExit ==
    /\ vpc = "loop"
    /\ vad_buffer < WindowSizeSamples
    /\ vpc' = "get"
    /\ UNCHANGED <<vblock, vad_buffer, vframes, in_speech, ring, speech_frames,
                   triggered, pre_roll_frames, min_samples, max_samples,
                   startFrame, lastSeg, lastCause, lastTranscribed, lastFinal>>
    /\ UNCHANGED notVad

\* process_vad(), lines 662-685: one iteration of the while loop on frame f, with
\* the calls of flush_segment() (lines 646-656) it makes. event is VADIterator's
\* answer, hasText whether transcribe_final returned a text that emit_final prints.
VadFrame(event, hasText) ==
    LET f    == vframes + 1
        \* lines 665-666
        r1   == IF ~in_speech THEN RingAppend(ring, f, pre_roll_frames) ELSE ring
        \* lines 669-675
        in1  == IF event = "start" THEN TRUE ELSE in_speech
        sf1  == IF event = "start" THEN Append(r1, f)
                ELSE IF in_speech THEN Append(speech_frames, f)
                ELSE speech_frames
        r2   == IF event = "start" THEN <<>> ELSE r1
        \* lines 677-679
        endF == in1 /\ event = "end"
        in2  == IF endF THEN FALSE ELSE in1
        sf2  == IF endF THEN <<>> ELSE sf1
        \* lines 681-685
        maxF == ForceCut(in2, sf2)
        in3  == IF maxF THEN FALSE ELSE in2
        sf3  == IF maxF THEN <<>> ELSE sf2
        r3   == IF maxF THEN <<>> ELSE r2
        \* flush_segment() returns at once on an empty speech_frames (line 648)
        flushed == (endF /\ sf1 /= <<>>) \/ (maxF /\ sf2 /= <<>>)
        seg  == IF endF THEN sf1 ELSE sf2
        trig1 == IF event = "start" THEN TRUE
                 ELSE IF event = "end" THEN FALSE ELSE triggered
    IN  /\ vpc = "loop"
        /\ vad_buffer >= WindowSizeSamples
        /\ event \in VadEvents(triggered)
        /\ vad_buffer' = vad_buffer - WindowSizeSamples
        /\ vframes' = f
        /\ in_speech' = in3
        /\ speech_frames' = sf3
        /\ ring' = r3
        \* line 684
        /\ triggered' = IF maxF THEN ResetStates(trig1) ELSE trig1
        /\ startFrame' = IF event = "start" THEN f ELSE startFrame
        /\ IF flushed
              THEN /\ lastSeg' = seg
                   /\ lastCause' = IF endF THEN "end" ELSE "max"
                   /\ lastTranscribed' = ~TooShort(seg)
                   /\ lastFinal' = (~TooShort(seg) /\ hasText)
              ELSE /\ hasText = FALSE
                   /\ UNCHANGED <<lastSeg, lastCause, lastTranscribed, lastFinal>>
        /\ UNCHANGED <<vpc, vblock, pre_roll_frames, min_samples, max_samples>>
        /\ UNCHANGED notVad

VadStep == \E event \in {"none", "start", "end"}, hasText \in BOOLEAN :
              VadFrame(event, hasText)

----------------------------------------------------------------------------
(* Fixed-window segmenter: the else branch of the main loop                 *)

\* Bounds of the fixed-window model: blocks dequeued, and the configurations drawn.
MaxBlocks == 6
MaxChunk == 4
MaxFixedBlock == 3
MaxNegOverlap == 2

\* main loop, line 807: the offset the buffer is sliced at (a slice that starts
\* past the end of the buffer leaves it empty: Min in FixedFrame).
FixedAdvance == chunk_samples - overlap_samples

\* main loop, lines 790 and 801-811: one block is dequeued and appended; when the
\* buffer holds chunk_samples, one chunk is cut (buffer[:chunk_samples]), the
\* buffer is sliced (buffer[chunk_samples - overlap_samples:]) and the chunk goes
\* to transcribe_final and emit_final. hasText: emit_final got a text it prints.
FixedFrame(hasText) ==
    LET len1 == bufLen + fblock
    IN  /\ nblocks < MaxBlocks
        /\ nblocks' = nblocks + 1
        /\ IF len1 < chunk_samples
              THEN /\ hasText = FALSE
                   /\ bufLen' = len1
                   /\ UNCHANGED <<bufStart, nChunks, lastChunkStart, lastChunkLen,
                                  prevChunkStart, chunkFinal>>
              ELSE /\ lastChunkStart' = bufStart
                   /\ lastChunkLen' = Min(len1, chunk_samples)
                   /\ prevChunkStart' = lastChunkStart
                   /\ nChunks' = nChunks + 1
                   /\ bufStart' = bufStart + Min(len1, FixedAdvance)
                   /\ bufLen' = len1 - Min(len1, FixedAdvance)
                   /\ chunkFinal' = hasText
        /\ UNCHANGED <<fblock, chunk_samples, overlap_samples>>
        /\ UNCHANGED notFix

FixedStep == \E hasText \in BOOLEAN : FixedFrame(hasText)

----------------------------------------------------------------------------
(* Delivery: _WebSocketSender.send, close and _loop                         *)

\* Bound of the delivery model: messages handed to send().
MaxMsgs == 3

\* A send that waits for an open connection.
WsSendWhenOpen ==
    /\ accepted < MaxMsgs
    /\ conn = "open"
    /\ accepted' = accepted + 1
    /\ wq' = Append(wq, accepted + 1)
    /\ UNCHANGED <<wpc, conn, wstop, inhand, received, pingOn>>
    /\ UNCHANGED notWs

\* send(), lines 388-392: put_nowait on the unbounded queue.Queue always queues.
WsSend ==
    /\ accepted < MaxMsgs
    /\ accepted' = accepted + 1
    /\ wq' = Append(wq, accepted + 1)
    /\ UNCHANGED <<wpc, conn, wstop, inhand, received, pingOn>>
    /\ UNCHANGED notWs

\* close(), lines 394-396: the stop flag is set; the join gives up after 1 s.
WsClose ==
    /\ ~wstop
    /\ wstop' = TRUE
    /\ UNCHANGED <<wq, wpc, conn, inhand, accepted, received, pingOn>>
    /\ UNCHANGED notWs

\* The remote end closes the connection.
PeerClose ==
    /\ conn = "open"
    /\ conn' = "broken"
    /\ UNCHANGED <<wq, wpc, wstop, inhand, accepted, received, pingOn>>
    /\ UNCHANGED notWs

\* _loop, lines 401-402: the outer while tests the stop flag; ws = None.
WsTop ==
    /\ wpc = "top"
    /\ wpc' = IF wstop THEN "done" ELSE "connect"
    /\ UNCHANGED <<wq, conn, wstop, inhand, accepted, received, pingOn>>
    /\ UNCHANGED notWs

\* _loop, lines 404-405: create_connection returns a connection or raises.
WsConnect(ok) ==
    /\ wpc = "connect"
    /\ IF ok THEN conn' = "open" /\ wpc' = "inner"
             ELSE conn' = "none" /\ wpc' = "sleep"
    /\ UNCHANGED <<wq, wstop, inhand, accepted, received, pingOn>>
    /\ UNCHANGED notWs

\* An inner loop that does not look at the stop flag.
WsInnerIgnoresStop ==
    /\ wpc = "inner"
    /\ wpc' = "get"
    /\ UNCHANGED <<wq, conn, wstop, inhand, accepted, received, pingOn>>
    /\ UNCHANGED notWs

\* _loop, line 406: the inner while tests the stop flag; leaving it runs finally.
WsInner ==
    /\ wpc = "inner"
    /\ wpc' = IF wstop THEN "closing" ELSE "get"
    /\ UNCHANGED <<wq, conn, wstop, inhand, accepted, received, pingOn>>
    /\ UNCHANGED notWs

\* _loop, lines 408, 410-411: queue.get(timeout=0.2) returns the head, or raises
\* queue.Empty, which is passed.
WsGet ==
    /\ wpc = "get"
    /\ IF wq /= <<>>
          THEN /\ inhand' = Head(wq)
               /\ wq' = Tail(wq)
               /\ wpc' = "send"
          ELSE /\ wpc' = "ping"
               /\ UNCHANGED <<wq, inhand>>
    /\ UNCHANGED <<conn, wstop, accepted, received, pingOn>>
    /\ UNCHANGED notWs

\* _loop, lines 409, 418: ws.send(msg) delivers on an open connection and raises
\* on a broken one; the except clause has no use for msg, which is dropped.
WsSendMsg ==
    /\ wpc = "send"
    /\ IF conn = "open"
          THEN /\ received' = received \cup {inhand}
               /\ wpc' = "ping"
          ELSE /\ wpc' = "sleep"
               /\ UNCHANGED received
    /\ inhand' = 0
    /\ UNCHANGED <<wq, conn, wstop, accepted, pingOn>>
    /\ UNCHANGED notWs

\* _loop, lines 413-417: when pings are on and one is due, ws.send(ping), which
\* raises on a broken connection. due: now - last_ping >= ping_seconds.
WsPing(due) ==
    /\ wpc = "ping"
    /\ wpc' = IF pingOn /\ due /\ conn /= "open" THEN "sleep" ELSE "inner"
    /\ UNCHANGED <<wq, conn, wstop, inhand, accepted, received, pingOn>>
    /\ UNCHANGED notWs

\* _loop, lines 418-419: except Exception: time.sleep(reconnect_seconds).
WsSleep ==
    /\ wpc = "sleep"
    /\ wpc' = "closing"
    /\ UNCHANGED <<wq, conn, wstop, inhand, accepted, received, pingOn>>
    /\ UNCHANGED notWs

\* A finally clause that leaves the connection open.
WsFinallyNoClose ==
    /\ wpc = "closing"
    /\ wpc' = "top"
    /\ UNCHANGED <<wq, conn, wstop, inhand, accepted, received, pingOn>>
    /\ UNCHANGED notWs

\* _loop, lines 420-425: finally closes ws when there is one; back to the outer while.
WsFinally ==
    /\ wpc = "closing"
    /\ conn' = "none"
    /\ wpc' = "top"
    /\ UNCHANGED <<wq, wstop, inhand, accepted, received, pingOn>>
    /\ UNCHANGED notWs

WsConnectStep == \E ok \in BOOLEAN : WsConnect(ok)

WsPingStep == \E due \in BOOLEAN : WsPing(due)

----------------------------------------------------------------------------
(* Emitter and interim loop: texts, the rolling buffer, time                *)

\* Time is counted in ticks of 0.6 s. 1.2 s (line 707) is 2 ticks; an elapsed
\* time of whole ticks is below 2.5 s (line 747) exactly when it is below 5 ticks.
MinSuppressTicks == 2
MinRecentTicks == 5

\* Bounds of the interim model: args.interim_seconds and
\* args.interim_window_seconds in ticks, the ticks the clock runs, the blocks the
\* main loop dequeues, the samples of a block, the capacity of the rolling
\* buffer (int(max_seconds * samplerate)) and interim_loop's min_samples.
PeriodTicks == 1
WindowTicks == 1
MaxTicks == 3
MaxIntBlocks == 2
IntBlock == 1
IntCap == 2
IntMin == 1

\* line 707: max(args.interim_seconds * 2.0, 1.2)
SuppressWindow == Max(PeriodTicks * 2, MinSuppressTicks)

\* line 747: max(args.interim_window_seconds, 2.5)
RecentWindow == Max(WindowTicks, MinRecentTicks)

\* time.time() when the pipeline starts: far from the 0.0 that last_final_time
\* and suppress_interim_until start at (lines 695, 697).
StartTime == RecentWindow + SuppressWindow

\* Texts are sequences of characters; 0 is a blank. The texts a decode returns
\* are stripped (lines 572, 587, 603): those drawn for finals and for interims.
FinalTexts == {<<>>, <<1>>, <<1, 2>>}

InterimTexts == {<<>>, <<1>>, <<2, 1>>}

\* The exclude lists drawn: none, and one entry with a leading blank.
ExcludeLists == {<<>>, << <<0, 1>> >>}

\* Python's `a in b` on strings.
IsSubstr(a, b) ==
    \E i \in 0..(Len(b) - Len(a)) : SubSeq(b, i + 1, i + Len(a)) = a

RECURSIVE LStrip(_)
LStrip(t) == IF t /= <<>> /\ Head(t) = 0 THEN LStrip(Tail(t)) ELSE t

RECURSIVE RStrip(_)
RStrip(t) == IF t /= <<>> /\ Last(t) = 0 THEN RStrip(Front(t)) ELSE t

\* str.strip()
Strip(t) == RStrip(LStrip(t))

\* A filter that excludes nothing.
IsExcludedNever(text, excl) == FALSE

\* _is_excluded, lines 362-368.
IsExcluded(text, excl) ==
    IF excl = <<>> THEN FALSE
    ELSE IF Strip(text) = <<>> THEN FALSE
    ELSE Strip(text) \in {Strip(excl[i]) : i \in 1..Len(excl)}

RECURSIVE SeqSum(_)
SeqSum(c) == IF c = <<>> THEN 0 ELSE Head(c) + SeqSum(Tail(c))

\* np.concatenate of a list of frames.
RECURSIVE Concatenate(_)
Concatenate(c) == IF c = <<>> THEN <<>> ELSE Head(c) \o Concatenate(Tail(c))

\* _RollingBuffer.add, lines 343-345: the eviction loop.
RECURSIVE RbEvict(_, _)
RbEvict(b, cap) ==
    IF b.size > cap /\ b.chunks /= <<>>
       THEN RbEvict([chunks |-> Tail(b.chunks),
                     size |-> b.size - Len(Head(b.chunks))], cap)
       ELSE b

\* An add that never evicts.
RbAddNoEvict(b, frame, cap) ==
    IF frame = <<>> THEN b
    ELSE [chunks |-> Append(b.chunks, frame), size |-> b.size + Len(frame)]

\* _RollingBuffer.add, lines 338-345.
RbAdd(b, frame, cap) ==
    IF frame = <<>> THEN b
    ELSE RbEvict([chunks |-> Append(b.chunks, frame),
                  size |-> b.size + Len(frame)], cap)

\* _RollingBuffer.get, lines 347-350: the stored frames concatenated.
RbGet(b) == IF b.chunks = <<>> THEN <<>> ELSE Concatenate(b.chunks)

\* _RollingBuffer.clear, lines 352-354; also __init__, lines 335-336.
RbEmpty == [chunks |-> <<>>, size |-> 0]

----------------------------------------------------------------------------
(* Emitter and interim loop: the main loop and emit_final                   *)

\* The clock advances.
Tick ==
    /\ now < StartTime + MaxTicks
    /\ now' = now + 1
    /\ UNCHANGED <<stop_event, intCfg, intMain, intLoop, intLocks, intShared>>
    /\ UNCHANGED notInt

\* main loop, line 790: a block is dequeued.
IMainGet ==
    /\ mpc = "get"
    /\ nIntBlocks < MaxIntBlocks
    /\ nIntBlocks' = nIntBlocks + 1
    /\ mpc' = "add"
    /\ UNCHANGED <<ftext, efNow, seq, stdout>>
    /\ UNCHANGED <<now, stop_event, intCfg, intLoop, intLocks, intShared>>
    /\ UNCHANGED notInt

\* main loop, line 795: with interim_lock (acquire).
IMainAddLock ==
    /\ mpc = "add"
    /\ interim_lock = "free"
    /\ interim_lock' = "main"
    /\ mpc' = "adding"
    /\ UNCHANGED <<tlock, itlock>>
    /\ UNCHANGED <<nIntBlocks, ftext, efNow, seq, stdout>>
    /\ UNCHANGED <<now, stop_event, intCfg, intLoop, intShared>>
    /\ UNCHANGED notInt

\* main loop, line 796: interim_buffer.add(data); the lock is released.
IMainAdd ==
    /\ mpc = "adding"
    /\ rb' = RbAdd(rb, [i \in 1..IntBlock |-> 0], IntCap)
    /\ interim_lock' = "free"
    /\ mpc' = "seg"
    /\ UNCHANGED <<tlock, itlock>>
    /\ UNCHANGED <<nIntBlocks, ftext, efNow, seq, stdout>>
    /\ UNCHANGED <<last_interim_text, suppress_interim_until, last_final_text,
                   last_final_time, sent>>
    /\ UNCHANGED <<now, stop_event, intCfg, intLoop>>
    /\ UNCHANGED notInt

\* main loop, lines 798-807: the segmenter has a segment ready for the
\* transcriber (ready), or the loop goes back to q.get().
IMainSegment(ready) ==
    /\ mpc = "seg"
    /\ mpc' = IF ready THEN "lockT" ELSE "get"
    /\ UNCHANGED <<nIntBlocks, ftext, efNow, seq, stdout>>
    /\ UNCHANGED <<now, stop_event, intCfg, intLoop, intLocks, intShared>>
    /\ UNCHANGED notInt

\* flush_segment line 654, main loop line 809: with transcribe_lock (acquire).
IMainLockT ==
    /\ mpc = "lockT"
    /\ tlock = "free"
    /\ tlock' = "main"
    /\ mpc' = "decode"
    /\ UNCHANGED <<interim_lock, itlock>>
    /\ UNCHANGED <<nIntBlocks, ftext, efNow, seq, stdout>>
    /\ UNCHANGED <<now, stop_event, intCfg, intLoop, intShared>>
    /\ UNCHANGED notInt

\* transcribe_final, lines 574-587, called at lines 655 and 810: model.transcribe
\* returns a text, stripped, or raises; nothing between it and the top of main()
\* catches the exception (line 812 catches KeyboardInterrupt only). The with
\* statement releases the lock either way.
IMainDecode(ok, text) ==
    /\ mpc = "decode"
    /\ tlock' = "free"
    /\ IF ~ok
          THEN mpc' = "crashed" /\ UNCHANGED ftext
          ELSE mpc' = "ef" /\ ftext' = text
    /\ UNCHANGED <<interim_lock, itlock>>
    /\ UNCHANGED <<nIntBlocks, efNow, seq, stdout>>
    /\ UNCHANGED <<now, stop_event, intCfg, intLoop, intShared>>
    /\ UNCHANGED notInt

\* An emit_final that resets last_interim_text before it looks at the text.
EfCheckResetsFirst ==
    /\ mpc = "ef"
    /\ last_interim_text' = <<>>
    /\ mpc' = IF ftext = <<>> \/ IsExcluded(ftext, excludes) THEN "get" ELSE "ef706"
    /\ UNCHANGED <<rb, suppress_interim_until, last_final_text, last_final_time, sent>>
    /\ UNCHANGED <<nIntBlocks, ftext, efNow, seq, stdout>>
    /\ UNCHANGED <<now, stop_event, intCfg, intLoop, intLocks>>
    /\ UNCHANGED notInt

\* emit_final, lines 701-705: an empty or excluded text returns; otherwise the
\* preview line is cleared and last_interim_text reset.
EfCheck ==
    /\ mpc = "ef"
    /\ IF ftext = <<>> \/ IsExcluded(ftext, excludes)
          THEN mpc' = "get" /\ UNCHANGED last_interim_text
          ELSE mpc' = "ef706" /\ last_interim_text' = <<>>
    /\ UNCHANGED <<rb, suppress_interim_until, last_final_text, last_final_time, sent>>
    /\ UNCHANGED <<nIntBlocks, ftext, efNow, seq, stdout>>
    /\ UNCHANGED <<now, stop_event, intCfg, intLoop, intLocks>>
    /\ UNCHANGED notInt

\* emit_final, lines 706-707: now = time.time(); the suppression window is set.
EfSuppress ==
    /\ mpc = "ef706"
    /\ efNow' = now
    /\ suppress_interim_until' = now + SuppressWindow
    /\ mpc' = "ef708"
    /\ UNCHANGED <<rb, last_interim_text, last_final_text, last_final_time, sent>>
    /\ UNCHANGED <<nIntBlocks, ftext, seq, stdout>>
    /\ UNCHANGED <<now, stop_event, intCfg, intLoop, intLocks>>
    /\ UNCHANGED notInt

\* emit_final, line 708.
EfText ==
    /\ mpc = "ef708"
    /\ last_final_text' = ftext
    /\ mpc' = "ef709"
    /\ UNCHANGED <<rb, last_interim_text, suppress_interim_until, last_final_time, sent>>
    /\ UNCHANGED <<nIntBlocks, ftext, efNow, seq, stdout>>
    /\ UNCHANGED <<now, stop_event, intCfg, intLoop, intLocks>>
    /\ UNCHANGED notInt

\* emit_final, line 709.
EfTime ==
    /\ mpc = "ef709"
    /\ last_final_time' = efNow
    /\ mpc' = "ef711"
    /\ UNCHANGED <<rb, last_interim_text, suppress_interim_until, last_final_text, sent>>
    /\ UNCHANGED <<nIntBlocks, ftext, efNow, seq, stdout>>
    /\ UNCHANGED <<now, stop_event, intCfg, intLoop, intLocks>>
    /\ UNCHANGED notInt

\* emit_final, line 711: with interim_lock (acquire).
EfClearLock ==
    /\ mpc = "ef711"
    /\ interim_lock = "free"
    /\ interim_lock' = "main"
    /\ mpc' = "ef712"
    /\ UNCHANGED <<tlock, itlock>>
    /\ UNCHANGED <<nIntBlocks, ftext, efNow, seq, stdout>>
    /\ UNCHANGED <<now, stop_event, intCfg, intLoop, intShared>>
    /\ UNCHANGED notInt

\* emit_final, line 712: interim_buffer.clear(); the lock is released.
EfClear ==
    /\ mpc = "ef712"
    /\ rb' = RbEmpty
    /\ interim_lock' = "free"
    /\ mpc' = "ef713"
    /\ UNCHANGED <<tlock, itlock>>
    /\ UNCHANGED <<last_interim_text, suppress_interim_until, last_final_text,
                   last_final_time, sent>>
    /\ UNCHANGED <<nIntBlocks, ftext, efNow, seq, stdout>>
    /\ UNCHANGED <<now, stop_event, intCfg, intLoop>>
    /\ UNCHANGED notInt

\* A final that goes out under the interim counter.
EfPrintSendInterimSeq ==
    /\ mpc = "ef713"
    /\ stdout' = stdout + 1
    /\ sent' = Append(sent, [kind |-> "final", seq |-> interim_seq + 1])
    /\ mpc' = "get"
    /\ UNCHANGED <<rb, last_interim_text, suppress_interim_until, last_final_text,
                   last_final_time>>
    /\ UNCHANGED <<nIntBlocks, ftext, efNow, seq>>
    /\ UNCHANGED <<now, stop_event, intCfg, intLoop, intLocks>>
    /\ UNCHANGED notInt

\* emit_final, lines 713-730: the text is printed; seq is incremented and the
\* record handed to ws_sender.send (the delivery channel is configured).
EfPrintSend ==
    /\ mpc = "ef713"
    /\ stdout' = stdout + 1
    /\ seq' = seq + 1
    /\ sent' = Append(sent, [kind |-> "final", seq |-> seq + 1])
    /\ mpc' = "get"
    /\ UNCHANGED <<rb, last_interim_text, suppress_interim_until, last_final_text,
                   last_final_time>>
    /\ UNCHANGED <<nIntBlocks, ftext, efNow>>
    /\ UNCHANGED <<now, stop_event, intCfg, intLoop, intLocks>>
    /\ UNCHANGED notInt

\* main loop, lines 812-822: KeyboardInterrupt reaches the main thread anywhere in
\* the loop; the with statements release what it holds; stop_event is set.
Interrupt ==
    /\ mpc \notin {"crashed", "stopped"}
    /\ mpc' = "stopped"
    /\ stop_event' = TRUE
    /\ interim_lock' = IF interim_lock = "main" THEN "free" ELSE interim_lock
    /\ tlock' = IF tlock = "main" THEN "free" ELSE tlock
    /\ UNCHANGED itlock
    /\ UNCHANGED <<nIntBlocks, ftext, efNow, seq, stdout>>
    /\ UNCHANGED <<now, intCfg, intLoop, intShared>>
    /\ UNCHANGED notInt

IMainSegmentStep == \E ready \in BOOLEAN : IMainSegment(ready)

IMainDecodeStep ==
    \/ \E text \in FinalTexts : IMainDecode(TRUE, text)
    \/ IMainDecode(FALSE, <<>>)

----------------------------------------------------------------------------
(* Emitter and interim loop: interim_loop                                   *)

\* interim_loop, lines 735-736: the while tests stop_event; time.sleep starts.
ILoop ==
    /\ ipc = "loop"
    /\ IF stop_event
          THEN ipc' = "done" /\ UNCHANGED wakeAt
          ELSE ipc' = "sleep" /\ wakeAt' = now + PeriodTicks
    /\ UNCHANGED <<itext, interim_seq>>
    /\ UNCHANGED <<intLocks, intShared>>
    /\ UNCHANGED <<now, stop_event, intCfg, intMain>>
    /\ UNCHANGED notInt


\* interim_loop, line 736: time.sleep(args.interim_seconds) returns.
ISleep ==
    /\ ipc = "sleep"
    /\ now >= wakeAt
    /\ ipc' = "supp"
    /\ wakeAt' = 0
    /\ UNCHANGED <<itext, interim_seq>>
    /\ UNCHANGED <<intLocks, intShared>>
    /\ UNCHANGED <<now, stop_event, intCfg, intMain>>
    /\ UNCHANGED notInt


\* interim_loop, lines 737-738: inside the suppression window the tick is skipped.
ISuppress ==
    /\ ipc = "supp"
    /\ ipc' = IF now < suppress_interim_until THEN "loop" ELSE "buf"
    /\ UNCHANGED <<wakeAt, itext, interim_seq>>
    /\ UNCHANGED <<intLocks, intShared>>
    /\ UNCHANGED <<now, stop_event, intCfg, intMain>>
    /\ UNCHANGED notInt


\* interim_loop, line 739: with interim_lock (acquire).
IBufLock ==
    /\ ipc = "buf"
    /\ interim_lock = "free"
    /\ interim_lock' = "interim"
    /\ ipc' = "bufheld"
    /\ UNCHANGED <<tlock, itlock>>
    /\ UNCHANGED <<wakeAt, itext, interim_seq>>
    /\ UNCHANGED intShared
    /\ UNCHANGED <<now, stop_event, intCfg, intMain>>
    /\ UNCHANGED notInt


\* An interim loop that keeps interim_lock while it goes on to the decode.
IBufGetKeepsLock ==
    /\ ipc = "bufheld"
    /\ ipc' = IF Len(RbGet(rb)) < IntMin THEN "loop" ELSE "lockT"
    /\ UNCHANGED <<interim_lock, tlock, itlock>>
    /\ UNCHANGED <<wakeAt, itext, interim_seq>>
    /\ UNCHANGED intShared
    /\ UNCHANGED <<now, stop_event, intCfg, intMain>>
    /\ UNCHANGED notInt

\* interim_loop, lines 740-742: audio = interim_buffer.get(); the lock is
\* released; a window shorter than min_samples is skipped.
IBufGet ==
    /\ ipc = "bufheld"
    /\ interim_lock' = "free"
    /\ ipc' = IF Len(RbGet(rb)) < IntMin THEN "loop" ELSE "lockT"
    /\ UNCHANGED <<tlock, itlock>>
    /\ UNCHANGED <<wakeAt, itext, interim_seq>>
    /\ UNCHANGED intShared
    /\ UNCHANGED <<now, stop_event, intCfg, intMain>>
    /\ UNCHANGED notInt


\* An interim decode that always takes a lock of its own.
ILockTOwnLock ==
    /\ ipc = "lockT"
    /\ itlock = "free" /\ itlock' = "interim" /\ UNCHANGED tlock
    /\ ipc' = "decode"
    /\ UNCHANGED interim_lock
    /\ UNCHANGED <<wakeAt, itext, interim_seq>>
    /\ UNCHANGED intShared
    /\ UNCHANGED <<now, stop_event, intCfg, intMain>>
    /\ UNCHANGED notInt

\* interim_loop, line 743: with interim_transcribe_lock (acquire), which is
\* transcribe_lock unless there is a separate interim model (line 508).
ILockT ==
    /\ ipc = "lockT"
    /\ IF separate
          THEN itlock = "free" /\ itlock' = "interim" /\ UNCHANGED tlock
          ELSE tlock = "free" /\ tlock' = "interim" /\ UNCHANGED itlock
    /\ ipc' = "decode"
    /\ UNCHANGED interim_lock
    /\ UNCHANGED <<wakeAt, itext, interim_seq>>
    /\ UNCHANGED intShared
    /\ UNCHANGED <<now, stop_event, intCfg, intMain>>
    /\ UNCHANGED notInt


\* transcribe_interim, lines 589-603, called at line 744, and line 745:
\* target.transcribe returns a text, stripped, or raises, which ends the thread;
\* the with statement releases the lock either way. An empty or excluded text
\* goes back to the while.
IDecode(ok, text) ==
    /\ ipc = "decode"
    /\ IF separate
          THEN itlock' = "free" /\ UNCHANGED tlock
          ELSE tlock' = "free" /\ UNCHANGED itlock
    /\ IF ~ok
          THEN ipc' = "crashed" /\ UNCHANGED itext
          ELSE /\ itext' = text
               /\ ipc' = IF text /= <<>> /\ ~IsExcluded(text, excludes)
                            THEN "r746" ELSE "loop"
    /\ UNCHANGED interim_lock
    /\ UNCHANGED <<wakeAt, interim_seq>>
    /\ UNCHANGED intShared
    /\ UNCHANGED <<now, stop_event, intCfg, intMain>>
    /\ UNCHANGED notInt


\* interim_loop, line 746: if last_final_text.
IRead746 ==
    /\ ipc = "r746"
    /\ ipc' = IF last_final_text /= <<>> THEN "r748" ELSE "render"
    /\ UNCHANGED <<wakeAt, itext, interim_seq>>
    /\ UNCHANGED <<intLocks, intShared>>
    /\ UNCHANGED <<now, stop_event, intCfg, intMain>>
    /\ UNCHANGED notInt


\* interim_loop, lines 747-748: time.time() - last_final_time < recent_window.
IRead748 ==
    /\ ipc = "r748"
    /\ ipc' = IF now - last_final_time < RecentWindow THEN "r749a" ELSE "render"
    /\ UNCHANGED <<wakeAt, itext, interim_seq>>
    /\ UNCHANGED <<intLocks, intShared>>
    /\ UNCHANGED <<now, stop_event, intCfg, intMain>>
    /\ UNCHANGED notInt


\* interim_loop, lines 749-750: text in last_final_text.
IRead749a ==
    /\ ipc = "r749a"
    /\ ipc' = IF IsSubstr(itext, last_final_text) THEN "loop" ELSE "r749b"
    /\ UNCHANGED <<wakeAt, itext, interim_seq>>
    /\ UNCHANGED <<intLocks, intShared>>
    /\ UNCHANGED <<now, stop_event, intCfg, intMain>>
    /\ UNCHANGED notInt


\* interim_loop, lines 749-750: or last_final_text in text (a second read).
IRead749b ==
    /\ ipc = "r749b"
    /\ ipc' = IF IsSubstr(last_final_text, itext) THEN "loop" ELSE "render"
    /\ UNCHANGED <<wakeAt, itext, interim_seq>>
    /\ UNCHANGED <<intLocks, intShared>>
    /\ UNCHANGED <<now, stop_event, intCfg, intMain>>
    /\ UNCHANGED notInt


\* interim_loop, lines 751-754: the preview line is written to stderr (the
\* padding to last_interim_len is left out).
IRender ==
    /\ ipc = "render"
    /\ ipc' = "send"
    /\ UNCHANGED <<wakeAt, itext, interim_seq>>
    /\ UNCHANGED <<intLocks, intShared>>
    /\ UNCHANGED <<now, stop_event, intCfg, intMain>>
    /\ UNCHANGED notInt


\* An interim that goes out under the final counter.
ISendFinalSeq ==
    /\ ipc = "send"
    /\ IF itext /= last_interim_text
          THEN /\ last_interim_text' = itext
               /\ sent' = Append(sent, [kind |-> "interim", seq |-> seq + 1,
                                       text |-> itext])
          ELSE UNCHANGED <<last_interim_text, sent>>
    /\ ipc' = "loop"
    /\ UNCHANGED <<rb, suppress_interim_until, last_final_text, last_final_time>>
    /\ UNCHANGED <<wakeAt, itext, interim_seq>>
    /\ UNCHANGED intLocks
    /\ UNCHANGED <<now, stop_event, intCfg, intMain>>
    /\ UNCHANGED notInt


\* interim_loop, lines 755-773: a text that differs from the last sent interim is
\* recorded, interim_seq incremented and the record handed to ws_sender.send.
ISend ==
    /\ ipc = "send"
    /\ IF itext /= last_interim_text
          THEN /\ last_interim_text' = itext
               /\ interim_seq' = interim_seq + 1
               /\ sent' = Append(sent, [kind |-> "interim", seq |-> interim_seq + 1,
                                       text |-> itext])
          ELSE UNCHANGED <<last_interim_text, interim_seq, sent>>
    /\ ipc' = "loop"
    /\ UNCHANGED <<rb, suppress_interim_until, last_final_text, last_final_time>>
    /\ UNCHANGED <<wakeAt, itext>>
    /\ UNCHANGED intLocks
    /\ UNCHANGED <<now, stop_event, intCfg, intMain>>
    /\ UNCHANGED notInt


IDecodeStep ==
    \/ \E text \in InterimTexts : IDecode(TRUE, text)
    \/ IDecode(FALSE, <<>>)

----------------------------------------------------------------------------
(* Specifications *)

\* The capture part when a specification does not run it.
CapOff == InitCap /\ max_queue = 1

\* The VAD segmenter when a specification does not run it.
VadOff ==
    /\ vpc = "get"
    /\ vblock = 0
    /\ vad_buffer = 0
    /\ vframes = 0
    /\ in_speech = FALSE
    /\ ring = <<>>
    /\ speech_frames = <<>>
    /\ triggered = FALSE
    /\ pre_roll_frames = 0
    /\ min_samples = 0
    /\ max_samples = 0
    /\ startFrame = 0
    /\ lastSeg = <<>>
    /\ lastCause = "none"
    /\ lastTranscribed = FALSE
    /\ lastFinal = FALSE

\* The fixed-window segmenter before the first block.
FixedIdle ==
    /\ bufStart = 0
    /\ bufLen = 0
    /\ nblocks = 0
    /\ nChunks = 0
    /\ lastChunkStart = 0
    /\ lastChunkLen = 0
    /\ prevChunkStart = 0
    /\ chunkFinal = FALSE

\* The fixed-window segmenter when a specification does not run it.
FixedOff ==
    /\ FixedIdle
    /\ fblock = 0
    /\ chunk_samples = 0
    /\ overlap_samples = 0

\* _WebSocketSender.__init__, lines 379-386: the thread starts at the top of _loop.
WsIdle ==
    /\ wq = <<>>
    /\ wpc = "top"
    /\ conn = "none"
    /\ wstop = FALSE
    /\ inhand = 0
    /\ accepted = 0
    /\ received = {}

\* The sender when a specification does not run it.
WsOff == WsIdle /\ pingOn = FALSE

\* main(), lines 687-697 and 784-787: the state when the main loop and the
\* interim thread start.
\* The rolling-buffer part when a specification does not run it.
RollOff ==
    /\ rcap = 0
    /\ radded = 0
    /\ rlen = 0
    /\ rgot = <<>>
    /\ rmpc = "idle"
    /\ ripc = "idle"

IntIdle ==
    /\ now = StartTime
    /\ mpc = "get"
    /\ ipc = "loop"
    /\ interim_lock = "free"
    /\ tlock = "free"
    /\ itlock = "free"
    /\ stop_event = FALSE
    /\ rb = RbEmpty
    /\ nIntBlocks = 0
    /\ ftext = <<>>
    /\ efNow = 0
    /\ wakeAt = 0
    /\ itext = <<>>
    /\ last_interim_text = <<>>
    /\ seq = 0
    /\ interim_seq = 0
    /\ suppress_interim_until = 0
    /\ last_final_text = <<>>
    /\ last_final_time = 0
    /\ stdout = 0
    /\ sent = <<>>

\* The emitter and the interim loop when a specification does not run them.
IntOff ==
    /\ IntIdle
    /\ separate = FALSE
    /\ excludes = <<>>

InitQueue ==
    /\ RollOff
    /\ IntOff
    /\ InitCap
    /\ max_queue \in 1..MaxQueueCfg
    /\ VadOff
    /\ FixedOff
    /\ WsOff

NextQueue ==
    \/ CbCheck
    \/ CbDiscard
    \/ CbPut
    \/ MainGet

SpecQueue == InitQueue /\ [][NextQueue]_vars

InitVad ==
    /\ RollOff
    /\ IntOff
    /\ CapOff
    /\ FixedOff
    /\ WsOff
    /\ vpc = "get"
    /\ vblock \in {k * HalfWindow : k \in 1..MaxBlockHalves}
    /\ vad_buffer = 0
    /\ vframes = 0
    /\ in_speech = FALSE
    /\ ring = <<>>
    /\ speech_frames = <<>>
    /\ triggered = FALSE
    /\ pre_roll_frames \in 0..MaxPreRoll
    /\ min_samples \in {k * HalfWindow : k \in 0..MaxMinHalves}
    /\ max_samples \in {k * HalfWindow : k \in 0..MaxMaxHalves}
    /\ startFrame = 0
    /\ lastSeg = <<>>
    /\ lastCause = "none"
    /\ lastTranscribed = FALSE
    /\ lastFinal = FALSE

NextVad ==
    \/ VadGetBlock
    \/ VadStep
    \/ VadLoopExit

SpecVad == InitVad /\ [][NextVad]_vars

\* Startup validation (lines 443-445) rejects overlap_seconds >= chunk_seconds
\* and nothing else about the two: a negative overlap_seconds passes. Lines
\* 512-514 convert to samples with int(), which keeps
\* overlap_samples <= chunk_samples.
InitFixed ==
    /\ RollOff
    /\ IntOff
    /\ CapOff
    /\ VadOff
    /\ WsOff
    /\ FixedIdle
    /\ fblock \in 1..MaxFixedBlock
    /\ chunk_samples \in 1..MaxChunk
    /\ overlap_samples \in (0 - MaxNegOverlap)..chunk_samples

NextFixed == FixedStep

SpecFixed == InitFixed /\ [][NextFixed]_vars

InitDelivery ==
    /\ RollOff
    /\ IntOff
    /\ CapOff
    /\ VadOff
    /\ FixedOff
    /\ WsIdle
    /\ pingOn \in BOOLEAN

NextDelivery ==
    \/ WsSend
    \/ WsClose
    \/ PeerClose
    \/ WsTop
    \/ WsConnectStep
    \/ WsInner
    \/ WsGet
    \/ WsSendMsg
    \/ WsPingStep
    \/ WsSleep
    \/ WsFinally

SpecDelivery == InitDelivery /\ [][NextDelivery]_vars

\* The steps of the delivery thread (_loop runs on a thread of its own, which
\* the scheduler keeps running).
WsThread ==
    \/ WsTop
    \/ WsConnectStep
    \/ WsInner
    \/ WsGet
    \/ WsSendMsg
    \/ WsPingStep
    \/ WsSleep
    \/ WsFinally

SpecDeliveryLive == SpecDelivery /\ WF_vars(WsThread)

\* Interim mode with the in-process backend and a delivery channel
\* (--interim, --ws-url), with or without a separate interim model.
InitInterim ==
    /\ RollOff
    /\ CapOff
    /\ VadOff
    /\ FixedOff
    /\ WsOff
    /\ IntIdle
    /\ separate \in BOOLEAN
    /\ excludes \in ExcludeLists

NextInterim ==
    \/ Tick
    \/ IMainGet
    \/ IMainAddLock
    \/ IMainAdd
    \/ IMainSegmentStep
    \/ IMainLockT
    \/ IMainDecodeStep
    \/ EfCheck
    \/ EfSuppress
    \/ EfText
    \/ EfTime
    \/ EfClearLock
    \/ EfClear
    \/ EfPrintSend
    \/ Interrupt
    \/ ILoop
    \/ ISleep
    \/ ISuppress
    \/ IBufLock
    \/ IBufGet
    \/ ILockT
    \/ IDecodeStep
    \/ IRead746
    \/ IRead748
    \/ IRead749a
    \/ IRead749b
    \/ IRender
    \/ ISend

SpecInterim == InitInterim /\ [][NextInterim]_vars

\* The capture callback next to the main loop and the interim thread.

\* main loop, line 790: q.get() takes the head of the queue the callback fills;
\* with the queue empty it waits.
PipeGet ==
    /\ mpc = "get"
    /\ q /= <<>>
    /\ nIntBlocks < MaxIntBlocks
    /\ consumed' = consumed \cup {Head(q)}
    /\ q' = Tail(q)
    /\ nIntBlocks' = nIntBlocks + 1
    /\ mpc' = "add"
    /\ UNCHANGED <<captured, cbpc, max_queue, dropped>>
    /\ UNCHANGED <<ftext, efNow, seq, stdout>>
    /\ UNCHANGED <<now, stop_event, intCfg, intLoop, intLocks, intShared>>
    /\ UNCHANGED <<vadVars, fixVars, wsVars, rollVars>>

\* Bounds of the pipeline model: the ticks the clock runs and the frames the
\* device delivers.
MaxPipeTicks == 1
MaxPipeFrames == 2

\* The device invokes the callback.
PipeCbCheck ==
    /\ captured < MaxPipeFrames
    /\ CbCheck

\* The clock advances.
PipeTick ==
    /\ now < StartTime + MaxPipeTicks
    /\ Tick

InitPipeline ==
    /\ RollOff
    /\ InitCap
    /\ max_queue = 1
    /\ VadOff
    /\ FixedOff
    /\ WsOff
    /\ IntIdle
    /\ separate = FALSE
    /\ excludes = <<>>

NextPipeline ==
    \/ PipeCbCheck
    \/ CbDiscard
    \/ CbPut
    \/ PipeGet
    \/ PipeTick
    \/ IMainAddLock
    \/ IMainAdd
    \/ IMainSegmentStep
    \/ IMainLockT
    \/ IMainDecodeStep
    \/ EfCheck
    \/ EfSuppress
    \/ EfText
    \/ EfTime
    \/ EfClearLock
    \/ EfClear
    \/ EfPrintSend
    \/ ILoop
    \/ ISleep
    \/ ISuppress
    \/ IBufLock
    \/ IBufGet
    \/ ILockT
    \/ IDecodeStep
    \/ IRead746
    \/ IRead748
    \/ IRead749a
    \/ IRead749b
    \/ IRender
    \/ ISend

SpecPipeline == InitPipeline /\ [][NextPipeline]_vars

----------------------------------------------------------------------------
(* The rolling buffer on its own: the main thread adds frames (lines        *)
(* 794-796) and clears (lines 710-712), the interim thread reads (lines     *)
(* 739-740), each inside "with interim_lock".  A sample is named by its     *)
(* number in the order of the adds.                                         *)

\* Bounds of the rolling-buffer model: the capacity (down to a negative one),
\* the samples of one frame and the samples added in a run.
MaxRollCap == 3
MaxNegRollCap == 1
MaxRollFrame == 3
MaxRollSamples == 6

rollFrame == <<capVars, vadVars, fixVars, wsVars, now, stop_event, intCfg, intMain,
               intLoop, tlock, itlock, last_interim_text, suppress_interim_until,
               last_final_text, last_final_time, sent>>

\* main loop, line 795: with interim_lock (acquire), for a frame of n samples.
RollAddLock(n) ==
    /\ rmpc = "idle"
    /\ radded + n <= MaxRollSamples
    /\ interim_lock = "free"
    /\ interim_lock' = "main"
    /\ rlen' = n
    /\ rmpc' = "add"
    /\ UNCHANGED <<rb, rcap, radded, rgot, ripc>>
    /\ UNCHANGED rollFrame

RollAddLockStep == \E n \in 0..MaxRollFrame : RollAddLock(n)

\* main loop, line 796: interim_buffer.add(data); the lock is released.
RollAdd ==
    /\ rmpc = "add"
    /\ rb' = RbAdd(rb, [i \in 1..rlen |-> radded + i], rcap)
    /\ radded' = radded + rlen
    /\ interim_lock' = "free"
    /\ rmpc' = "idle"
    /\ UNCHANGED <<rcap, rlen, rgot, ripc>>
    /\ UNCHANGED rollFrame

\* emit_final, line 711: with interim_lock (acquire).
RollClearLock ==
    /\ rmpc = "idle"
    /\ interim_lock = "free"
    /\ interim_lock' = "main"
    /\ rmpc' = "clear"
    /\ UNCHANGED <<rb, rcap, radded, rlen, rgot, ripc>>
    /\ UNCHANGED rollFrame

\* emit_final, line 712: interim_buffer.clear(); the lock is released.
RollClear ==
    /\ rmpc = "clear"
    /\ rb' = RbEmpty
    /\ rlen' = 0
    /\ interim_lock' = "free"
    /\ rmpc' = "idle"
    /\ UNCHANGED <<rcap, radded, rgot, ripc>>
    /\ UNCHANGED rollFrame

\* interim_loop, line 739: with interim_lock (acquire).
RollGetLock ==
    /\ ripc = "idle"
    /\ interim_lock = "free"
    /\ interim_lock' = "interim"
    /\ ripc' = "get"
    /\ UNCHANGED <<rb, rcap, radded, rlen, rgot, rmpc>>
    /\ UNCHANGED rollFrame

\* interim_loop, line 740: audio = interim_buffer.get(); the lock is released.
RollGet ==
    /\ ripc = "get"
    /\ rgot' = RbGet(rb)
    /\ interim_lock' = "free"
    /\ ripc' = "idle"
    /\ UNCHANGED <<rb, rcap, radded, rlen, rmpc>>
    /\ UNCHANGED rollFrame

\* _RollingBuffer.__init__, lines 331-334, with --interim-window-seconds of
\* either sign (the value is not validated).
InitRolling ==
    /\ IntOff
    /\ CapOff
    /\ VadOff
    /\ FixedOff
    /\ WsOff
    /\ rcap \in (0 - MaxNegRollCap)..MaxRollCap
    /\ radded = 0
    /\ rlen = 0
    /\ rgot = <<>>
    /\ rmpc = "idle"
    /\ ripc = "idle"

NextRolling ==
    \/ RollAddLockStep
    \/ RollAdd
    \/ RollClearLock
    \/ RollClear
    \/ RollGetLock
    \/ RollGet

SpecRolling == InitRolling /\ [][NextRolling]_vars

----------------------------------------------------------------------------
(* The three locks: the main loop with emit_final and the interim loop as   *)
(* two threads whose steps are taken fairly.  A "with" block ends, and      *)
(* model.transcribe returns or raises; the clock and the device are not     *)
(* obliged to do anything.                                                  *)

\* Bounds of the lock model: the ticks the clock runs and the blocks the main
\* loop dequeues.
MaxLockTicks == 1
MaxLockBlocks == 1

\* The clock advances.
LockTick ==
    /\ now < StartTime + MaxLockTicks
    /\ Tick

\* main loop, line 790: a block is dequeued.
LockMainGet ==
    /\ nIntBlocks < MaxLockBlocks
    /\ IMainGet

\* The steps of the main thread, lines 788-811 with flush_segment and emit_final.
MainThread ==
    \/ LockMainGet
    \/ IMainAddLock
    \/ IMainAdd
    \/ IMainSegmentStep
    \/ IMainLockT
    \/ IMainDecodeStep
    \/ EfCheck
    \/ EfSuppress
    \/ EfText
    \/ EfTime
    \/ EfClearLock
    \/ EfClear
    \/ EfPrintSend

\* The steps of the interim thread, lines 732-773.
InterimThread ==
    \/ ILoop
    \/ ISleep
    \/ ISuppress
    \/ IBufLock
    \/ IBufGet
    \/ ILockT
    \/ IDecodeStep
    \/ IRead746
    \/ IRead748
    \/ IRead749a
    \/ IRead749b
    \/ IRender
    \/ ISend

NextLocks ==
    \/ LockTick
    \/ LockMainGet
    \/ IMainAddLock
    \/ IMainAdd
    \/ IMainSegmentStep
    \/ IMainLockT
    \/ IMainDecodeStep
    \/ EfCheck
    \/ EfSuppress
    \/ EfText
    \/ EfTime
    \/ EfClearLock
    \/ EfClear
    \/ EfPrintSend
    \/ Interrupt
    \/ ILoop
    \/ ISleep
    \/ ISuppress
    \/ IBufLock
    \/ IBufGet
    \/ ILockT
    \/ IDecodeStep
    \/ IRead746
    \/ IRead748
    \/ IRead749a
    \/ IRead749b
    \/ IRender
    \/ ISend

SpecLocks ==
    /\ InitInterim
    /\ [][NextLocks]_vars
    /\ WF_vars(MainThread)
    /\ WF_vars(InterimThread)

----------------------------------------------------------------------------
DropsOldestKeepsNewest ==
    /\ \A d \in dropped : \A i \in 1..Len(q) : d < q[i]
    /\ cbpc = "idle" =>
          /\ \A i \in 1..Len(q) : q[i] = captured - Len(q) + i
          /\ \A f \in 1..captured : f \in Range(q) \cup consumed \cup dropped
          /\ (captured > 0 /\ captured \notin consumed) =>
                (q /= <<>> /\ Last(q) = captured)

\* After a consumer stall the queue has overflowed and holds max_queue frames.
DropsOldestWitness ==
    /\ consumed = {}
    /\ dropped /= {}
    /\ cbpc = "idle"
    /\ Len(q) = max_queue
    /\ Last(q) = captured

(* C4: the segment flushed for a StartEvent at frame f is a contiguous run  *)
(* of VAD frames in capture order, each once: at most pre_roll_frames       *)
(* frames captured before f, then f, then the frames after it.              *)
SegmentContiguousOnce ==
    lastSeg /= <<>> =>
        /\ \A i \in 1..(Len(lastSeg) - 1) : lastSeg[i + 1] = lastSeg[i] + 1
        /\ startFrame \in Range(lastSeg)
        /\ Cardinality({i \in 1..Len(lastSeg) : lastSeg[i] < startFrame})
              <= pre_roll_frames

(* C5 as stated: with max_samples > 0 no flushed segment is longer than     *)
(* max_samples + window_size_samples.                                       *)
SegmentAtMostMaxPlusFrame ==
    (max_samples > 0 /\ lastSeg /= <<>>) =>
        Len(lastSeg) * WindowSizeSamples <= max_samples + WindowSizeSamples

(* C5 as amended: with max_samples > 0 no flushed segment is longer than    *)
(* the larger of max_samples + window_size_samples and                      *)
(* (pre_roll_frames + 1) * window_size_samples, the pre-roll seeded at the  *)
(* StartEvent; neither is the segment being built.                          *)
SegmentAtMostMaxOrPreRoll ==
    max_samples > 0 =>
        /\ Len(lastSeg) * WindowSizeSamples
              <= Max(max_samples + WindowSizeSamples,
                     (pre_roll_frames + 1) * WindowSizeSamples)
        /\ Len(speech_frames) * WindowSizeSamples < max_samples
        /\ pre_roll_frames * WindowSizeSamples <= max_samples =>
              Len(lastSeg) * WindowSizeSamples <= max_samples + WindowSizeSamples

\* A forced cut of a segment that grew frame by frame up to max_samples.
SegmentAtMostWitness ==
    /\ max_samples > 0
    /\ lastCause = "max"
    /\ Len(lastSeg) * WindowSizeSamples >= max_samples
    /\ Len(lastSeg) > pre_roll_frames + 1

(* C6: a segment handed to the transcriber has at least min_samples samples *)
(* or was cut at the maximum length; a shorter segment ended by an EndEvent *)
(* is discarded without a transcribe call or a final; the flush leaves      *)
(* speech_frames empty.                                                     *)
ShortSegmentsDiscarded ==
    /\ lastFinal => lastTranscribed
    /\ lastTranscribed =>
          \/ Len(lastSeg) * WindowSizeSamples >= min_samples
          \/ lastCause = "max"
    /\ (lastCause = "end" /\ Len(lastSeg) * WindowSizeSamples < min_samples) =>
          (~lastTranscribed /\ ~lastFinal)
    /\ ~in_speech => speech_frames = <<>>

\* An EndEvent has ended a segment shorter than min_samples.
ShortSegmentsWitness ==
    /\ lastCause = "end"
    /\ lastSeg /= <<>>
    /\ Len(lastSeg) * WindowSizeSamples < min_samples
    /\ ~lastTranscribed
    /\ speech_frames = <<>>

(* C7: every chunk handed to the transcriber has exactly chunk_samples      *)
(* samples, the first starts at the start of the captured stream and each   *)
(* next one exactly chunk_samples - overlap_samples after the one before.   *)
ChunksAdvanceExactly ==
    /\ nChunks >= 1 => lastChunkLen = chunk_samples
    /\ nChunks = 1 => lastChunkStart = 0
    /\ nChunks >= 2 =>
          /\ lastChunkStart = prevChunkStart + (chunk_samples - overlap_samples)
          /\ lastChunkStart <= prevChunkStart + chunk_samples

(* C8: while the delivery thread is not stopped no record accepted by       *)
(* send() is lost: each is still queued, is the one _loop is about to send, *)
(* or has been received by the remote end (so that it can still be          *)
(* transmitted after a reconnect).                                           *)
NoAcceptedRecordLost ==
    ~wstop =>
        \A m \in 1..accepted : m \in Range(wq) \/ m = inhand \/ m \in received

\* The final whose emit_final took efNow at line 706 has been printed and
\* enqueued: the main loop is back outside lines 706-730.
FinalEmitted ==
    /\ seq > 0
    /\ mpc \in {"get", "add", "adding", "seg", "lockT", "decode", "ef", "ef706"}

(* C1: whenever the interim thread renders a preview or enqueues an interim *)
(* record after a final has been emitted, the time is not inside            *)
(* [t_final, t_final + max(2 x period, 1.2 s)) of that final (efNow is the  *)
(* time emit_final took for it), whatever the interleaving of the main loop *)
(* and the interim thread.                                                  *)
NoInterimInSuppressWindow ==
    [][((ipc = "render" /\ ipc' = "send") \/ interim_seq' /= interim_seq)
          => ~(FinalEmitted /\ efNow <= now /\ now < efNow + SuppressWindow)]_vars

(* C9: a decode that fails for one segment ends neither the main loop nor   *)
(* the interim thread.                                                       *)
DecodeFailureSurvived == mpc /= "crashed" /\ ipc /= "crashed"

(* C10: per kind the seq values of the records enqueued are strictly        *)
(* increasing in enqueue order, and each counter counts the records of its  *)
(* own kind only.                                                            *)
SeqMonotonicPerKind ==
    /\ \A i, j \in 1..Len(sent) :
          (i < j /\ sent[i].kind = sent[j].kind) => sent[i].seq < sent[j].seq
    /\ seq = Cardinality({i \in 1..Len(sent) : sent[i].kind = "final"})
    /\ interim_seq = Cardinality({i \in 1..Len(sent) : sent[i].kind = "interim"})

\* Finals and interims have been enqueued interleaved: a final, an interim, a final.
SeqMonotonicWitness ==
    \E i, j, k \in 1..Len(sent) :
        /\ i < j /\ j < k
        /\ sent[i].kind = "final"
        /\ sent[j].kind = "interim"
        /\ sent[k].kind = "final"

\* The trimmed text equals a trimmed entry of the exclude list.
InExcludes(text, excl) ==
    \E i \in 1..Len(excl) : Strip(text) = Strip(excl[i])

(* C11: a final whose trimmed text equals a trimmed exclude entry is neither *)
(* printed to stdout nor enqueued, and an interim whose trimmed text equals  *)
(* one is neither rendered to the preview nor enqueued.                      *)
ExcludedNeverEmitted ==
    [][/\ (stdout' /= stdout \/ seq' /= seq) => ~InExcludes(ftext, excludes)
       /\ ((ipc = "render" /\ ipc' = "send") \/ interim_seq' /= interim_seq)
             => ~InExcludes(itext, excludes)
       /\ Len(sent') > Len(sent) =>
             IF Last(sent').kind = "final" THEN ~InExcludes(ftext, excludes)
                                          ELSE ~InExcludes(itext, excludes)]_vars

\* emit_final has returned on an excluded final and the interim loop has gone
\* back to its while on an excluded interim; nothing has been emitted.
ExcludedWitness ==
    /\ mpc = "get" /\ ftext /= <<>> /\ InExcludes(ftext, excludes)
    /\ ipc = "loop" /\ itext /= <<>> /\ InExcludes(itext, excludes)
    /\ stdout = 0 /\ sent = <<>>

(* C12: once stop_event is set the interim thread writes no preview and      *)
(* enqueues no interim record, not even for a decode that was in flight when *)
(* the event was set.                                                        *)
NoInterimAfterStop ==
    [][stop_event =>
          ~((ipc = "render" /\ ipc' = "send") \/ interim_seq' /= interim_seq)]_vars

(* C13: the audio callback, once invoked, can always take its next step and  *)
(* run to completion, whatever the main loop and the interim thread are      *)
(* doing (decoding, or waiting for a transcribe lock), and it is never the   *)
(* holder of transcribe_lock, interim_transcribe_lock or interim_lock.       *)
CallbackNeverBlocked ==
    /\ cbpc = "discard" => ENABLED CbDiscard
    /\ cbpc = "put" => ENABLED CbPut
    /\ tlock \in {"free", "main", "interim"}
    /\ itlock \in {"free", "interim"}
    /\ interim_lock \in {"free", "main", "interim"}

\* A second callback is about to put its frame while the main loop waits for
\* the transcribe lock, which the interim thread holds during its decode.
CallbackNeverBlockedWitness ==
    /\ cbpc = "put"
    /\ captured >= 2
    /\ mpc = "lockT"
    /\ ipc = "decode"
    /\ tlock = "interim"

(* C14: send() can be called and returns in every state of the delivery      *)
(* channel (never connected, connected, failed, sleeping before the          *)
(* reconnect), so the main loop is never held up by it; and a connect or     *)
(* send failure never ends the delivery thread, which only finishes once it  *)
(* has been stopped.                                                         *)
SendNeverBlocks ==
    /\ accepted < MaxMsgs => ENABLED WsSend
    /\ wpc = "done" => wstop

\* A record is queued while the thread sleeps before a reconnect, after a
\* failure on a connection that had been open.
SendNeverBlocksWitness ==
    /\ wpc = "sleep"
    /\ conn = "broken"
    /\ wq /= <<>>
    /\ accepted < MaxMsgs

(* C15: in fixed-window mode, after the main loop has processed a frame the  *)
(* pending buffer holds fewer than chunk_samples samples, whatever the block *)
(* size and the validated chunk and overlap (stated here for the overlaps    *)
(* from 0 to chunk_samples - 1 only).                                        *)
FixedBufferBelowChunk ==
    (0 <= overlap_samples /\ overlap_samples < chunk_samples)
        => bufLen < chunk_samples

(* C16: whenever the interim thread renders a preview or enqueues an interim *)
(* record while a final F has been emitted less than max(window_seconds,     *)
(* 2.5 s) ago, the interim text is neither contained in F's text nor does it *)
(* contain it, whatever the interleaving of emit_final's writes of           *)
(* last_final_text and last_final_time with the interim loop's reads. (Once  *)
(* F is emitted, last_final_text is F's text and efNow its time.)            *)
NoInterimOverlappingRecentFinal ==
    [][((ipc = "render" /\ ipc' = "send") \/ interim_seq' /= interim_seq)
          => ~(/\ FinalEmitted
               /\ now - efNow < RecentWindow
               /\ \/ IsSubstr(itext, last_final_text)
                  \/ IsSubstr(last_final_text, itext))]_vars

(* C17: at every VAD-frame boundary, in Idle speech_frames is empty and the  *)
(* pre-roll ring holds at most pre_roll_frames frames, namely the most       *)
(* recent frames seen since Idle was entered, in capture order; in Speaking  *)
(* the ring is empty and speech_frames is not. (Idle is entered at the start *)
(* and at the last frame of the last flushed segment.)                       *)
SegmenterStateInvariant ==
    LET idleFrom == IF lastSeg = <<>> THEN 0 ELSE Last(lastSeg)
        n == Min(pre_roll_frames, vframes - idleFrom)
    IN  IF ~in_speech
           THEN /\ speech_frames = <<>>
                /\ Len(ring) <= pre_roll_frames
                /\ Len(ring) = n
                /\ \A i \in 1..Len(ring) : ring[i] = vframes - n + i
           ELSE /\ ring = <<>>
                /\ speech_frames /= <<>>

\* Idle after a segment, with more frames seen since than the ring keeps.
SegmenterStateWitness ==
    /\ ~in_speech
    /\ lastSeg /= <<>>
    /\ pre_roll_frames = 2
    /\ Len(ring) = 2
    /\ vframes - Last(lastSeg) >= 3

(* C18: with max_samples > 0 the segmenter is never left Speaking at a frame *)
(* boundary with len(speech_frames) x window_size_samples >= max_samples:    *)
(* the forced flush happens within the frame step, and right after it the    *)
(* state is Idle, ring and speech_frames are empty and the VAD's hysteresis  *)
(* state is reset, so that a StartEvent can follow; with max_samples = 0     *)
(* there is never a forced flush.                                            *)
ForcedCutResets ==
    /\ (in_speech /\ max_samples > 0) =>
          Len(speech_frames) * WindowSizeSamples < max_samples
    /\ (lastCause = "max" /\ Last(lastSeg) = vframes) =>
          /\ ~in_speech
          /\ ring = <<>>
          /\ speech_frames = <<>>
          /\ ~triggered
    /\ max_samples = 0 => lastCause /= "max"

\* After a forced cut the continuing speech has raised a new StartEvent and a
\* new segment is being built.
ForcedCutWitness ==
    /\ lastCause = "max"
    /\ in_speech
    /\ startFrame > Last(lastSeg)
    /\ speech_frames /= <<>>

(* C19: every final decode runs while the main loop holds transcribe_lock    *)
(* and every interim decode while the interim thread holds                   *)
(* interim_transcribe_lock, which is transcribe_lock when a single model     *)
(* serves both; in that case a final decode and an interim decode are never  *)
(* in progress at the same time.                                             *)
DecodesSerialized ==
    /\ mpc = "decode" => tlock = "main"
    /\ ipc = "decode" =>
          IF separate THEN itlock = "interim" ELSE tlock = "interim"
    /\ ~separate => ~(mpc = "decode" /\ ipc = "decode")

\* With a separate interim model a final decode and an interim decode are in
\* progress at the same time, each under its own lock.
DecodesParallelWitness ==
    /\ separate
    /\ mpc = "decode" /\ tlock = "main"
    /\ ipc = "decode" /\ itlock = "interim"

(* C20: the number of messages pending in the outbound queue stays below a   *)
(* fixed bound, also while the channel is disconnected or reconnecting, a    *)
(* send() on a full queue dropping its record. Stated for a bound below the  *)
(* MaxMsgs records handed to send(): the queue never holds all of them.      *)
OutboundQueueBounded == Len(wq) < MaxMsgs

\* The interim records enqueued so far, in enqueue order.
SentInterims == SelectSeq(sent, LAMBDA r : r.kind = "interim")

(* C21: no two consecutive interim records enqueued to the delivery channel  *)
(* carry the same text, whatever happens between them (interim ticks, calls  *)
(* of emit_final).                                                           *)
NoRepeatedInterim ==
    \A i \in 1..(Len(SentInterims) - 1) :
        SentInterims[i].text /= SentInterims[i + 1].text

(* C22: the callback discards a queued frame only when the queue holds       *)
(* max_queue frames at the moment of the discard, under every interleaving   *)
(* of the callback and the main loop's q.get().                              *)
DiscardOnlyWhenFull ==
    [][dropped' /= dropped => Len(q) >= max_queue]_vars

(* C23: the delivery thread holds at most one open connection: when it is    *)
(* at the top of its loop or connecting, the connection it had is closed;    *)
(* and after every connect or send failure (the thread sleeps                *)
(* reconnect_seconds) it eventually attempts to connect again, unless the    *)
(* stop flag is set.                                                         *)
OneConnectionAndReconnect ==
    /\ [](wpc \in {"top", "connect"} => conn = "none")
    /\ (wpc = "sleep") ~> (wpc = "connect" \/ wstop)

\* The thread connects again after a connection that had delivered a record
\* has failed.
ReconnectWitness ==
    /\ wpc = "connect"
    /\ ~wstop
    /\ received /= {}

(* C24: once close() has set the stop flag the delivery thread eventually    *)
(* terminates with its connection closed, from whatever state it is in and   *)
(* whatever is still pending in the queue.                                   *)
StopTerminatesThread == wstop ~> (wpc = "done" /\ conn = "none")

\* The thread has terminated with its connection closed and records still
\* pending in the queue.
StopTerminatesWitness ==
    /\ wstop
    /\ wpc = "done"
    /\ conn = "none"
    /\ wq /= <<>>

(* C25: a call of emit_final with an empty text or a text matching an        *)
(* exclude entry changes none of: the final seq counter, the suppression     *)
(* window, last_final_text, last_final_time, the last sent interim text, the *)
(* rolling buffer, stdout, the records enqueued.                             *)
FilteredFinalChangesNothing ==
    [][(/\ mpc = "ef"
        /\ mpc' /= mpc
        /\ ftext = <<>> \/ InExcludes(ftext, excludes))
          => UNCHANGED <<seq, suppress_interim_until, last_final_text,
                         last_final_time, last_interim_text, rb, stdout, sent>>]_vars

\* emit_final has returned on an empty text after an earlier final and a sent
\* interim had set the state it leaves alone.
FilteredFinalWitness ==
    /\ mpc = "get"
    /\ ftext = <<>>
    /\ seq >= 1
    /\ last_final_text /= <<>>
    /\ last_interim_text /= <<>>

\* The lengths of the stored frames.
RollLengths == [i \in 1..Len(rb.chunks) |-> Len(rb.chunks[i])]

\* The buffer's bookkeeping, with the size bounded by bound: the tracked size
\* is the sum of the frame lengths and, once a frame has been added, at most
\* bound; the stored samples are consecutive in the order they were added
\* and the newest of them is the newest added; an access happens under
\* interim_lock.
RollState(bound) ==
    /\ rb.size = SeqSum(RollLengths)
    /\ radded > 0 => rb.size <= bound
    /\ \A i \in 1..(Len(RbGet(rb)) - 1) : RbGet(rb)[i + 1] = RbGet(rb)[i] + 1
    /\ rb.chunks /= <<>> => RbGet(rb)[Len(RbGet(rb))] = radded
    /\ rmpc \in {"add", "clear"} => interim_lock = "main"
    /\ ripc = "get" => interim_lock = "interim"

\* get() hands out the stored frames end to end and leaves the buffer alone.
RollGetReads ==
    [][(ripc = "get" /\ ripc' = "idle")
          => /\ rb' = rb
             /\ Len(rgot') = rb.size
             /\ \A i \in 1..Len(rb.chunks) : \A j \in 1..Len(rb.chunks[i]) :
                    rgot'[SeqSum(SubSeq(RollLengths, 1, i - 1)) + j] = rb.chunks[i][j]]_vars

(* C26: after any adds and clears interleaved with gets, each under         *)
(* interim_lock, the tracked size is the sum of the stored frame lengths    *)
(* and at most the capacity, or 0 when the capacity is negative, also when  *)
(* one frame exceeds the capacity; get returns the stored frames            *)
(* concatenated in insertion order and does not modify the buffer.          *)
RollingBufferInvariant ==
    /\ [] RollState(IF rcap < 0 THEN 0 ELSE rcap)
    /\ RollGetReads

\* The same with the size bounded by the capacity whatever its sign.
RollingBufferWithinCapacity ==
    /\ [] RollState(rcap)
    /\ RollGetReads

\* A frame larger than a positive capacity has been added, which emptied the
\* buffer, after a get that returned samples.
RollingBufferWitness ==
    /\ rmpc = "idle"
    /\ rcap >= 1
    /\ rlen > rcap
    /\ radded >= rlen
    /\ rb = RbEmpty
    /\ rgot /= <<>>

(* C27: at every frame boundary in_speech equals the VAD's triggered state, *)
(* also after an end event and after a forced cut with its reset; a start   *)
(* event arrives only when in_speech is false and speech_frames is empty,   *)
(* and the VAD leaves its triggered state only when in_speech is true.      *)
SpeakingAgreesWithVad ==
    /\ [](in_speech = triggered)
    /\ [](~in_speech => speech_frames = <<>>)
    /\ [][startFrame' /= startFrame => (~in_speech /\ speech_frames = <<>>)]_vars
    /\ [][(triggered /\ ~triggered') => in_speech]_vars

\* A segment was cut at max_samples and a later frame started the next one.
SpeakingAgreesWitness ==
    /\ lastCause = "max"
    /\ lastSeg /= <<>>
    /\ in_speech
    /\ triggered
    /\ speech_frames /= <<>>
    /\ startFrame > lastSeg[Len(lastSeg)]

\* The locks thread t holds; without a separate interim model
\* interim_transcribe_lock is transcribe_lock (line 508).
LocksHeldBy(t) ==
    {l \in {"interim_lock", "transcribe_lock", "interim_transcribe_lock"} :
        \/ l = "interim_lock" /\ interim_lock = t
        \/ l = "transcribe_lock" /\ tlock = t
        \/ l = "interim_transcribe_lock" /\ separate /\ itlock = t}

\* Neither thread has ended.
BothThreadsRun ==
    /\ mpc \notin {"crashed", "stopped"}
    /\ ipc \notin {"crashed", "done"}

(* C28: no thread holds more than one of interim_lock, transcribe_lock and  *)
(* interim_transcribe_lock; while neither thread has ended, one of them has *)
(* a step to take, or waits for a frame or for its sleep and not for a      *)
(* lock; and a lock a thread holds is released.                             *)
LocksNeverNested ==
    /\ [](\A t \in {"main", "interim"} : Cardinality(LocksHeldBy(t)) <= 1)
    /\ [](BothThreadsRun =>
             \/ ENABLED MainThread
             \/ ENABLED InterimThread
             \/ mpc = "get"
             \/ ipc = "sleep")
    /\ \A t \in {"main", "interim"} :
          /\ (interim_lock = t) ~> (interim_lock /= t)
          /\ (tlock = t) ~> (tlock /= t)
    /\ (itlock /= "free") ~> (itlock = "free")

\* The main thread decodes under transcribe_lock while the interim thread,
\* with a separate model, decodes under interim_transcribe_lock.
LocksNeverNestedWitness ==
    /\ separate
    /\ tlock = "main"
    /\ itlock = "interim"
    /\ interim_lock = "free"
    /\ nIntBlocks >= 1

====
